---- MODULE Spec2Model ----
(***************************************************************************)
(* The getheaders / getblocks request messages of package protos           *)
(* (src/protos/msggetheaders.go): the request object, its mutator          *)
(* AddBlockLocatorHash, the wire codec VVSEncode / VVSDecode and            *)
(* MaxPayloadLength.                                                       *)
(*                                                                         *)
(* Byte streams are sequences of numbers 0..255.  A hash is a sequence of  *)
(* HashLength bytes.  Unsigned integers are natural numbers; TLC integers  *)
(* are 32-bit signed, so a value read from the wire that does not          *)
(* fit is held as Saturated (it is only ever compared with                 *)
(* MaxBlockLocatorsPerMsg), and the protocol versions put on the wire are  *)
(* below 2^31.                                                             *)
(***************************************************************************)
EXTENDS Integers, Sequences, FiniteSets, TLC

VARIABLES
    variant,    \* the concrete type of the message: CmdGetHeaders or CmdGetBlocks
    msg,        \* the message: ProtocolVersion, BlockLocatorHashes, HashStop
    pc,         \* "idle": no call in progress; "loop": inside VVSDecode's loop;
                \* "done": the call has returned, the caller has not resumed
    op,         \* the last call made on the message
    err,        \* the error that call returned (nil while a decode is running)
    arg,        \* the hash passed to the last AddBlockLocatorHash
    r,          \* the reader: the bytes of the stream not yet consumed
    nread,      \* bytes the current / last VVSDecode consumed from the reader
    count,      \* VVSDecode's local count
    i,          \* VVSDecode's loop index
    alloc,      \* slots of locatorHashes allocated by the current / last VVSDecode
    w,          \* the bytes the last VVSEncode wrote to its writer
    wcap,       \* the capacity of that writer (NoLimit: it never fails)
    short,      \* bytes cut off the end of the valid encoding handed to VVSDecode
    mpl,        \* the value the last MaxPayloadLength returned
    sid         \* the sample request of the codec specification (0 otherwise)

vars == <<variant, msg, pc, op, err, arg, r, nread, count, i, alloc, w, wcap,
          short, mpl, sid>>

----------------------------------------------------------------------------
(* Program constants *)

MaxBlockLocatorsPerMsg == 500

\* common.HashLength
HashLength == 32

\* serialization.MaxVarIntPayload: the widest CompactSize, 0xff + 8 bytes
MaxVarIntPayload == 9

CmdGetHeaders == "getheaders"
CmdGetBlocks == "getblocks"

----------------------------------------------------------------------------
(* Bounds of the model *)

\* On a message this close to the maximum the caller of AddBlockLocatorHash
\* also offers AltHash.
AltTail == 1

\* Every prefix of a valid encoding up to this length is tried, and of a
\* longer one the prefixes that end this close to its start or its end.
CutDepth == 8

----------------------------------------------------------------------------
(* Errors *)

nil == [type |-> "nil", func |-> "", desc |-> ""]

messageError(f, str) == [type |-> "MessageError", func |-> f, desc |-> str]

EOF == [type |-> "io.EOF", func |-> "", desc |-> "EOF"]

ErrUnexpectedEOF == [type |-> "io.ErrUnexpectedEOF", func |-> "", desc |-> "unexpected EOF"]

ErrShortWrite == [type |-> "io.ErrShortWrite", func |-> "", desc |-> "short write"]

TooManyLocators == "too many block locator hashes for message"

----------------------------------------------------------------------------
(* Little-endian integers, readers and writers (package serialization) *)

Saturated == 1073741823 * 2 + 1

RECURSIVE PutLE(_, _)
PutLE(v, n) == IF n = 0 THEN <<>> ELSE <<v % 256>> \o PutLE(v \div 256, n - 1)

RECURSIVE GetLE(_)
GetLE(b) ==
    IF b = <<>> THEN 0
    ELSE LET hi == GetLE(Tail(b))
         IN  IF hi >= 8388608 THEN Saturated ELSE b[1] + 256 * hi

\* io.ReadFull: n bytes, or what is left and io.EOF (nothing left) or
\* io.ErrUnexpectedEOF (fewer than n left).
ReadFull(rd, n) ==
    IF Len(rd) >= n
    THEN [err |-> nil, bytes |-> SubSeq(rd, 1, n), rest |-> SubSeq(rd, n + 1, Len(rd))]
    ELSE [err |-> IF Len(rd) = 0 THEN EOF ELSE ErrUnexpectedEOF,
          bytes |-> rd, rest |-> <<>>]

ReadUint32(rd) ==
    LET x == ReadFull(rd, 4)
    IN  [err |-> x.err, val |-> IF x.err = nil THEN GetLE(x.bytes) ELSE 0, rest |-> x.rest]

VarIntWidth(discriminant) ==
    IF discriminant = 255 THEN 8
    ELSE IF discriminant = 254 THEN 4
    ELSE IF discriminant = 253 THEN 2
    ELSE 0

ReadVarInt(rd, pver) ==
    LET d == ReadFull(rd, 1)
    IN  IF d.err # nil THEN [err |-> d.err, val |-> 0, rest |-> d.rest]
        ELSE IF VarIntWidth(d.bytes[1]) = 0
             THEN [err |-> nil, val |-> d.bytes[1], rest |-> d.rest]
             ELSE LET x == ReadFull(d.rest, VarIntWidth(d.bytes[1]))
                  IN  [err |-> x.err,
                       val |-> IF x.err = nil THEN GetLE(x.bytes) ELSE 0,
                       rest |-> x.rest]

\* Reads into the destination buffer: a short read leaves the bytes it got
\* at the front of the buffer and the rest of the buffer as it was.
ReadNBytes(rd, buf, n) ==
    LET x == ReadFull(rd, n)
    IN  [err |-> x.err,
         buf |-> x.bytes \o SubSeq(buf, Len(x.bytes) + 1, Len(buf)),
         rest |-> x.rest]

\* A writer takes bytes up to its capacity and then fails.
NoLimit == 0 - 1

Write(wr, bytes) ==
    IF wr.cap = NoLimit \/ Len(wr.buf) + Len(bytes) <= wr.cap
    THEN [wr |-> [wr EXCEPT !.buf = @ \o bytes], err |-> nil]
    ELSE [wr |-> [wr EXCEPT !.buf = @ \o SubSeq(bytes, 1, wr.cap - Len(wr.buf))],
          err |-> ErrShortWrite]

WriteUint32(wr, v) == Write(wr, PutLE(v, 4))

WriteVarInt(wr, pver, val) ==
    IF val < 253 THEN Write(wr, <<val>>)
    ELSE IF val <= 65535 THEN Write(wr, <<253>> \o PutLE(val, 2))
    ELSE IF val < Saturated THEN Write(wr, <<254>> \o PutLE(val, 4))
    ELSE Write(wr, <<255>> \o PutLE(val, 8))

WriteNBytes(wr, bytes) == Write(wr, bytes)

----------------------------------------------------------------------------
(* MsgGetHeaders *)

ZeroHash == [k \in 1..HashLength |-> 0]

NewMsgGetHeaders ==
    [ProtocolVersion |-> 0, BlockLocatorHashes |-> <<>>, HashStop |-> ZeroHash]

MsgGetHeaders_AddBlockLocatorHash(m, hash) ==
    IF Len(m.BlockLocatorHashes) + 1 > MaxBlockLocatorsPerMsg
    THEN [msg |-> m,
          err |-> messageError("MsgGetHeaders.AddBlockLocatorHash", TooManyLocators)]
    ELSE [msg |-> [m EXCEPT !.BlockLocatorHashes = Append(@, hash)], err |-> nil]

\* VVSDecode up to the loop: the version, the count, the bound check and the
\* two make() calls.  next = "loop" when the loop is entered.
MsgGetHeaders_VVSDecode_Begin(m, rd, pver) ==
    LET v == ReadUint32(rd)
    IN  IF v.err # nil
        THEN [msg |-> m, err |-> v.err, r |-> v.rest, count |-> 0, alloc |-> 0,
              next |-> "idle"]
        ELSE LET m1 == [m EXCEPT !.ProtocolVersion = v.val]
                 c == ReadVarInt(v.rest, pver)
             IN  IF c.err # nil
                 THEN [msg |-> m1, err |-> c.err, r |-> c.rest, count |-> 0,
                       alloc |-> 0, next |-> "idle"]
                 ELSE IF c.val > MaxBlockLocatorsPerMsg
                 THEN [msg |-> m1,
                       err |-> messageError("MsgGetHeaders.VVSDecode", TooManyLocators),
                       r |-> c.rest, count |-> c.val, alloc |-> 0, next |-> "idle"]
                 ELSE [msg |-> [m1 EXCEPT !.BlockLocatorHashes = <<>>], err |-> nil,
                       r |-> c.rest, count |-> c.val, alloc |-> c.val, next |-> "loop"]

\* One iteration of VVSDecode's loop: read locatorHashes[i], append a
\* pointer to it.  The slot is fresh (zeroed) and is reachable from the
\* message only once it has been appended.
MsgGetHeaders_VVSDecode_Iterate(m, rd) ==
    LET h == ReadNBytes(rd, ZeroHash, HashLength)
    IN  IF h.err # nil
        THEN [msg |-> m, err |-> h.err, r |-> h.rest, next |-> "idle"]
        ELSE LET a == MsgGetHeaders_AddBlockLocatorHash(m, h.buf)
             IN  IF a.err # nil
                 THEN [msg |-> a.msg, err |-> a.err, r |-> h.rest, next |-> "idle"]
                 ELSE [msg |-> a.msg, err |-> nil, r |-> h.rest, next |-> "loop"]

\* VVSDecode's last statement: the stop hash is read into msg.HashStop.
MsgGetHeaders_VVSDecode_End(m, rd) ==
    LET h == ReadNBytes(rd, m.HashStop, HashLength)
    IN  [msg |-> [m EXCEPT !.HashStop = h.buf], err |-> h.err, r |-> h.rest,
         next |-> "idle"]

\* VVSEncode's loop over hashes[lo..hi]: the hashes are written in order
\* and the first failing write ends the loop.  (The range is halved so that
\* the evaluation nests to a depth of log2 of the length.)
RECURSIVE MsgGetHeaders_WriteHashes(_, _, _, _)
MsgGetHeaders_WriteHashes(wr, hashes, lo, hi) ==
    IF lo > hi THEN [wr |-> wr, err |-> nil]
    ELSE IF lo = hi THEN WriteNBytes(wr, hashes[lo])
    ELSE LET mid == (lo + hi) \div 2
             x == MsgGetHeaders_WriteHashes(wr, hashes, lo, mid)
         IN  IF x.err # nil THEN x
             ELSE MsgGetHeaders_WriteHashes(x.wr, hashes, mid + 1, hi)

MsgGetHeaders_VVSEncode(m, wr, pver) ==
    LET n == Len(m.BlockLocatorHashes)
    IN  IF n > MaxBlockLocatorsPerMsg
        THEN [wr |-> wr, err |-> messageError("MsgGetHeaders.VVSEncode", TooManyLocators)]
        ELSE LET a == WriteUint32(wr, m.ProtocolVersion)
             IN  IF a.err # nil THEN a
                 ELSE LET b == WriteVarInt(a.wr, pver, n)
                      IN  IF b.err # nil THEN b
                          ELSE LET c == MsgGetHeaders_WriteHashes(b.wr, m.BlockLocatorHashes, 1, n)
                               IN  IF c.err # nil THEN c
                                   ELSE WriteNBytes(c.wr, m.HashStop)

MsgGetHeaders_Command == CmdGetHeaders

MsgGetHeaders_MaxPayloadLength(m, pver) ==
    4 + MaxVarIntPayload + (MaxBlockLocatorsPerMsg * HashLength) + HashLength

----------------------------------------------------------------------------
(* MsgGetBlocks *)

\* common.ProtocolVersion
ProtocolVersion == 1

NewMsgGetBlocks(hashStop) ==
    [ProtocolVersion |-> ProtocolVersion, BlockLocatorHashes |-> <<>>,
     HashStop |-> hashStop]

\* AddBlockLocatorHash with the bound off by one: len > max for len+1 > max.
Mutant_Add_OffByOne(m, hash) ==
    IF Len(m.BlockLocatorHashes) > MaxBlockLocatorsPerMsg
    THEN [msg |-> m,
          err |-> messageError("MsgGetBlocks.AddBlockLocatorHash", TooManyLocators)]
    ELSE [msg |-> [m EXCEPT !.BlockLocatorHashes = Append(@, hash)], err |-> nil]

\* AddBlockLocatorHash putting the hash at the front.
Mutant_Add_Prepends(m, hash) ==
    IF Len(m.BlockLocatorHashes) + 1 > MaxBlockLocatorsPerMsg
    THEN [msg |-> m,
          err |-> messageError("MsgGetBlocks.AddBlockLocatorHash", TooManyLocators)]
    ELSE [msg |-> [m EXCEPT !.BlockLocatorHashes = <<hash>> \o @], err |-> nil]

MsgGetBlocks_AddBlockLocatorHash(m, hash) ==
    IF Len(m.BlockLocatorHashes) + 1 > MaxBlockLocatorsPerMsg
    THEN [msg |-> m,
          err |-> messageError("MsgGetBlocks.AddBlockLocatorHash", TooManyLocators)]
    ELSE [msg |-> [m EXCEPT !.BlockLocatorHashes = Append(@, hash)], err |-> nil]

\* VVSDecode making locatorHashes before it checks the count.
Mutant_Begin_AllocatesBeforeCheck(m, rd, pver) ==
    LET v == ReadUint32(rd)
    IN  IF v.err # nil
        THEN [msg |-> m, err |-> v.err, r |-> v.rest, count |-> 0, alloc |-> 0,
              next |-> "idle"]
        ELSE LET m1 == [m EXCEPT !.ProtocolVersion = v.val]
                 c == ReadVarInt(v.rest, pver)
             IN  IF c.err # nil
                 THEN [msg |-> m1, err |-> c.err, r |-> c.rest, count |-> 0,
                       alloc |-> 0, next |-> "idle"]
                 ELSE IF c.val > MaxBlockLocatorsPerMsg
                 THEN [msg |-> m1,
                       err |-> messageError("MsgGetBlocks.VVSDecode", TooManyLocators),
                       r |-> c.rest, count |-> c.val, alloc |-> c.val, next |-> "idle"]
                 ELSE [msg |-> [m1 EXCEPT !.BlockLocatorHashes = <<>>], err |-> nil,
                       r |-> c.rest, count |-> c.val, alloc |-> c.val, next |-> "loop"]

\* VVSDecode up to the loop: the version, the count, the bound check and the
\* two make() calls.  next = "loop" when the loop is entered.
MsgGetBlocks_VVSDecode_Begin(m, rd, pver) ==
    LET v == ReadUint32(rd)
    IN  IF v.err # nil
        THEN [msg |-> m, err |-> v.err, r |-> v.rest, count |-> 0, alloc |-> 0,
              next |-> "idle"]
        ELSE LET m1 == [m EXCEPT !.ProtocolVersion = v.val]
                 c == ReadVarInt(v.rest, pver)
             IN  IF c.err # nil
                 THEN [msg |-> m1, err |-> c.err, r |-> c.rest, count |-> 0,
                       alloc |-> 0, next |-> "idle"]
                 ELSE IF c.val > MaxBlockLocatorsPerMsg
                 THEN [msg |-> m1,
                       err |-> messageError("MsgGetBlocks.VVSDecode", TooManyLocators),
                       r |-> c.rest, count |-> c.val, alloc |-> 0, next |-> "idle"]
                 ELSE [msg |-> [m1 EXCEPT !.BlockLocatorHashes = <<>>], err |-> nil,
                       r |-> c.rest, count |-> c.val, alloc |-> c.val, next |-> "loop"]

\* VVSDecode's loop reading every hash into one buffer and appending a
\* pointer to that buffer: every entry shows the hash read last.
Mutant_Iterate_OneBuffer(m, rd) ==
    LET h == ReadNBytes(rd, ZeroHash, HashLength)
    IN  IF h.err # nil
        THEN [msg |-> m, err |-> h.err, r |-> h.rest, next |-> "idle"]
        ELSE IF Len(m.BlockLocatorHashes) + 1 > MaxBlockLocatorsPerMsg
        THEN [msg |-> m,
              err |-> messageError("MsgGetBlocks.AddBlockLocatorHash", TooManyLocators),
              r |-> h.rest, next |-> "idle"]
        ELSE [msg |-> [m EXCEPT !.BlockLocatorHashes =
                                    [k \in 1..(Len(@) + 1) |-> h.buf]],
              err |-> nil, r |-> h.rest, next |-> "loop"]

\* One iteration of VVSDecode's loop: read locatorHashes[i], append a
\* pointer to it.  The slot is fresh (zeroed) and is reachable from the
\* message only once it has been appended.
MsgGetBlocks_VVSDecode_Iterate(m, rd) ==
    LET h == ReadNBytes(rd, ZeroHash, HashLength)
    IN  IF h.err # nil
        THEN [msg |-> m, err |-> h.err, r |-> h.rest, next |-> "idle"]
        ELSE LET a == MsgGetBlocks_AddBlockLocatorHash(m, h.buf)
             IN  IF a.err # nil
                 THEN [msg |-> a.msg, err |-> a.err, r |-> h.rest, next |-> "idle"]
                 ELSE [msg |-> a.msg, err |-> nil, r |-> h.rest, next |-> "loop"]

\* VVSDecode dropping the error of its last read.
Mutant_End_DropsError(m, rd) ==
    LET h == ReadNBytes(rd, m.HashStop, HashLength)
    IN  [msg |-> [m EXCEPT !.HashStop = h.buf], err |-> nil, r |-> h.rest,
         next |-> "idle"]

\* VVSDecode's last statement: the stop hash is read into msg.HashStop.
MsgGetBlocks_VVSDecode_End(m, rd) ==
    LET h == ReadNBytes(rd, m.HashStop, HashLength)
    IN  [msg |-> [m EXCEPT !.HashStop = h.buf], err |-> h.err, r |-> h.rest,
         next |-> "idle"]

\* VVSEncode's loop over hashes[lo..hi]: the hashes are written in order
\* and the first failing write ends the loop.  (The range is halved so that
\* the evaluation nests to a depth of log2 of the length.)
RECURSIVE MsgGetBlocks_WriteHashes(_, _, _, _)
MsgGetBlocks_WriteHashes(wr, hashes, lo, hi) ==
    IF lo > hi THEN [wr |-> wr, err |-> nil]
    ELSE IF lo = hi THEN WriteNBytes(wr, hashes[lo])
    ELSE LET mid == (lo + hi) \div 2
             x == MsgGetBlocks_WriteHashes(wr, hashes, lo, mid)
         IN  IF x.err # nil THEN x
             ELSE MsgGetBlocks_WriteHashes(x.wr, hashes, mid + 1, hi)

\* VVSEncode checking the count after it has written the version.
Mutant_Encode_ChecksAfterVersion(m, wr, pver) ==
    LET n == Len(m.BlockLocatorHashes)
        a == WriteUint32(wr, m.ProtocolVersion)
    IN  IF a.err # nil THEN a
        ELSE IF n > MaxBlockLocatorsPerMsg
        THEN [wr |-> a.wr, err |-> messageError("MsgGetBlocks.VVSEncode", TooManyLocators)]
        ELSE LET b == WriteVarInt(a.wr, pver, n)
             IN  IF b.err # nil THEN b
                 ELSE LET c == MsgGetBlocks_WriteHashes(b.wr, m.BlockLocatorHashes, 1, n)
                      IN  IF c.err # nil THEN c
                          ELSE WriteNBytes(c.wr, m.HashStop)

\* VVSEncode writing the stop hash before the locator hashes.
Mutant_Encode_StopHashFirst(m, wr, pver) ==
    LET n == Len(m.BlockLocatorHashes)
    IN  IF n > MaxBlockLocatorsPerMsg
        THEN [wr |-> wr, err |-> messageError("MsgGetBlocks.VVSEncode", TooManyLocators)]
        ELSE LET a == WriteUint32(wr, m.ProtocolVersion)
             IN  IF a.err # nil THEN a
                 ELSE LET b == WriteVarInt(a.wr, pver, n)
                      IN  IF b.err # nil THEN b
                          ELSE LET c == WriteNBytes(b.wr, m.HashStop)
                               IN  IF c.err # nil THEN c
                                   ELSE MsgGetBlocks_WriteHashes(c.wr,
                                            m.BlockLocatorHashes, 1, n)

MsgGetBlocks_VVSEncode(m, wr, pver) ==
    LET n == Len(m.BlockLocatorHashes)
    IN  IF n > MaxBlockLocatorsPerMsg
        THEN [wr |-> wr, err |-> messageError("MsgGetBlocks.VVSEncode", TooManyLocators)]
        ELSE LET a == WriteUint32(wr, m.ProtocolVersion)
             IN  IF a.err # nil THEN a
                 ELSE LET b == WriteVarInt(a.wr, pver, n)
                      IN  IF b.err # nil THEN b
                          ELSE LET c == MsgGetBlocks_WriteHashes(b.wr, m.BlockLocatorHashes, 1, n)
                               IN  IF c.err # nil THEN c
                                   ELSE WriteNBytes(c.wr, m.HashStop)

MsgGetBlocks_Command == CmdGetBlocks

\* MaxPayloadLength counting one byte for the count.
Mutant_MaxPayloadLength_OneByteCount(m, pver) ==
    4 + 1 + (MaxBlockLocatorsPerMsg * HashLength) + HashLength

\* MaxPayloadLength counting the three bytes of the count 500.
Mutant_MaxPayloadLength_WidthOfMax(m, pver) ==
    4 + 3 + (MaxBlockLocatorsPerMsg * HashLength) + HashLength

MsgGetBlocks_MaxPayloadLength(m, pver) ==
    4 + MaxVarIntPayload + (MaxBlockLocatorsPerMsg * HashLength) + HashLength

----------------------------------------------------------------------------
(* Inputs: the hashes callers add, the streams peers send *)

Variants == {CmdGetHeaders, CmdGetBlocks}

\* The pver argument of the codec calls.
PVers == {0, ProtocolVersion}

\* The k-th block locator hash of a chain: its position, then a fixed tail.
BlockHash(k) ==
    [j \in 1..HashLength |-> IF j = 1 THEN k % 256 ELSE IF j = 2 THEN k \div 256 ELSE j]

AltHash == [j \in 1..HashLength |-> 255 - j]

StopHash == [j \in 1..HashLength |-> 128 + j]

\* What a caller passes to AddBlockLocatorHash on a message of length len.
HashInputs(len) ==
    {BlockHash(len + 1)}
        \cup (IF len + AltTail >= MaxBlockLocatorsPerMsg THEN {AltHash} ELSE {})

\* The first n locator hashes of a chain; with alt, AltHash is the first one.
Chain(n, alt) == [k \in 1..n |-> IF alt /\ k = 1 THEN AltHash ELSE BlockHash(k)]

Flat(hashes) ==
    [p \in 1..(Len(hashes) * HashLength) |->
        hashes[((p - 1) \div HashLength) + 1][((p - 1) % HashLength) + 1]]

\* The CompactSize of a count, as a peer writes it.
CompactSize(n) ==
    IF n < 253 THEN <<n>>
    ELSE IF n <= 65535 THEN <<253, n % 256, n \div 256>>
    ELSE <<254, n % 256, (n \div 256) % 256, (n \div 65536) % 256, n \div 16777216>>

\* The bytes of a request on the wire, as a peer writes them.
Wire(version, hashes, stop) ==
    <<version % 256, (version \div 256) % 256, (version \div 65536) % 256,
      version \div 16777216>> \o CompactSize(Len(hashes)) \o Flat(hashes) \o stop

\* A version whose four bytes differ: 04 03 02 01 on the wire.
WireVersion == 4 + 256 * 3 + 65536 * 2 + 16777216 * 1

\* Counts a hostile peer declares: 501, 65535, 65536, 10,000,000 and 2^32
\* (one above the maximum, the CompactSize width transitions, the 8-byte form).
HostileCounts ==
    {<<253, 245, 1>>, <<253, 255, 255>>, <<254, 0, 0, 1, 0>>, <<254, 128, 150, 152, 0>>,
     <<255, 0, 0, 0, 0, 1, 0, 0, 0>>}

\* short of a stream that is no prefix of a valid encoding.
Forged == 0 - 1

\* The streams handed to VVSDecode: bytes, and how many bytes were cut off
\* the end of a valid encoding (0: the encoding is whole).
Streams ==
    LET whole == {Wire(WireVersion, Chain(n, FALSE), StopHash) : n \in {0, 2, MaxBlockLocatorsPerMsg}}
        two == Wire(WireVersion, Chain(2, FALSE), StopHash)
    IN  {[bytes |-> b, short |-> 0] : b \in whole}
        \cup {[bytes |-> SubSeq(two, 1, c), short |-> Len(two) - c] :
                c \in {0, 5 + HashLength + CutDepth}}
        \cup {[bytes |-> <<4, 3, 2, 1>> \o c \o AltHash, short |-> Forged] :
                c \in {<<253, 245, 1>>, <<254, 128, 150, 152, 0>>}}

----------------------------------------------------------------------------
(* The calls on a message *)

\* AddBlockLocatorHash(hash)
AddBlockLocatorHash(hash) ==
    /\ pc = "idle"
    /\ LET res == IF variant = CmdGetHeaders
                  THEN MsgGetHeaders_AddBlockLocatorHash(msg, hash)
                  ELSE MsgGetBlocks_AddBlockLocatorHash(msg, hash)
       IN  /\ msg' = res.msg
           /\ err' = res.err
    /\ op' = "AddBlockLocatorHash"
    /\ arg' = hash
    /\ pc' = "idle"
    /\ r' = <<>> /\ nread' = 0 /\ count' = 0 /\ i' = 0 /\ alloc' = 0 /\ short' = 0
    /\ w' = <<>> /\ wcap' = NoLimit /\ mpl' = 0
    /\ UNCHANGED <<variant, sid>>

\* VVSDecode(r, pver, enc), from its entry to the loop; the reader holds
\* stream.
VVSDecode(stream, cut, pver) ==
    /\ pc = "idle"
    /\ LET res == IF variant = CmdGetHeaders
                  THEN MsgGetHeaders_VVSDecode_Begin(msg, stream, pver)
                  ELSE MsgGetBlocks_VVSDecode_Begin(msg, stream, pver)
       IN  /\ msg' = res.msg
           /\ err' = res.err
           /\ r' = res.r
           /\ nread' = Len(stream) - Len(res.r)
           /\ count' = res.count
           /\ alloc' = res.alloc
           /\ pc' = IF res.next = "loop" THEN "loop" ELSE "done"
    /\ i' = 0
    /\ op' = "VVSDecode"
    /\ short' = cut
    /\ arg' = <<>> /\ w' = <<>> /\ wcap' = NoLimit /\ mpl' = 0
    /\ UNCHANGED <<variant, sid>>

\* One iteration of VVSDecode's loop.
VVSDecodeIterate ==
    /\ pc = "loop"
    /\ i < count
    /\ LET res == IF variant = CmdGetHeaders
                  THEN MsgGetHeaders_VVSDecode_Iterate(msg, r)
                  ELSE MsgGetBlocks_VVSDecode_Iterate(msg, r)
       IN  /\ msg' = res.msg
           /\ err' = res.err
           /\ r' = res.r
           /\ nread' = nread + Len(r) - Len(res.r)
           /\ i' = IF res.next = "loop" THEN i + 1 ELSE i
           /\ pc' = IF res.next = "loop" THEN "loop" ELSE "done"
    /\ UNCHANGED <<variant, op, arg, count, alloc, w, wcap, short, mpl, sid>>

\* The loop is over: VVSDecode reads the stop hash and returns.
VVSDecodeEnd ==
    /\ pc = "loop"
    /\ ~(i < count)
    /\ LET res == IF variant = CmdGetHeaders
                  THEN MsgGetHeaders_VVSDecode_End(msg, r)
                  ELSE MsgGetBlocks_VVSDecode_End(msg, r)
       IN  /\ msg' = res.msg
           /\ err' = res.err
           /\ r' = res.r
           /\ nread' = nread + Len(r) - Len(res.r)
    /\ pc' = "done"
    /\ UNCHANGED <<variant, op, arg, count, i, alloc, w, wcap, short, mpl, sid>>

\* VVSEncode(w, pver, enc) on a writer of capacity cap.
VVSEncode(cap, pver) ==
    /\ pc = "idle"
    /\ LET res == IF variant = CmdGetHeaders
                  THEN MsgGetHeaders_VVSEncode(msg, [buf |-> <<>>, cap |-> cap], pver)
                  ELSE MsgGetBlocks_VVSEncode(msg, [buf |-> <<>>, cap |-> cap], pver)
       IN  /\ w' = res.wr.buf
           /\ err' = res.err
    /\ wcap' = cap
    /\ op' = "VVSEncode"
    /\ pc' = "done"
    /\ arg' = <<>> /\ r' = <<>> /\ nread' = 0 /\ count' = 0 /\ i' = 0 /\ alloc' = 0
    /\ short' = 0 /\ mpl' = 0
    /\ UNCHANGED <<variant, msg, sid>>

\* MaxPayloadLength(pver)
MaxPayloadLength(pver) ==
    /\ pc = "idle"
    /\ mpl' = IF variant = CmdGetHeaders
              THEN MsgGetHeaders_MaxPayloadLength(msg, pver)
              ELSE MsgGetBlocks_MaxPayloadLength(msg, pver)
    /\ err' = nil
    /\ op' = "MaxPayloadLength"
    /\ pc' = "done"
    /\ arg' = <<>> /\ r' = <<>> /\ nread' = 0 /\ count' = 0 /\ i' = 0 /\ alloc' = 0
    /\ short' = 0 /\ w' = <<>> /\ wcap' = NoLimit
    /\ UNCHANGED <<variant, msg, sid>>

\* The call has returned; the caller drops what it returned and goes on.
Return ==
    /\ pc = "done"
    /\ pc' = "idle"
    /\ op' = "none"
    /\ err' = nil
    /\ arg' = <<>>
    /\ r' = <<>>
    /\ nread' = 0
    /\ count' = 0
    /\ i' = 0
    /\ alloc' = 0
    /\ w' = <<>>
    /\ wcap' = NoLimit
    /\ short' = 0
    /\ mpl' = 0
    /\ UNCHANGED <<variant, msg, sid>>

----------------------------------------------------------------------------
(* The request object: construction, then any calls of the mutators *)

NoCall ==
    /\ pc = "idle" /\ op = "none" /\ err = nil /\ arg = <<>> /\ r = <<>>
    /\ nread = 0 /\ count = 0 /\ i = 0 /\ alloc = 0 /\ w = <<>> /\ wcap = NoLimit
    /\ short = 0 /\ mpl = 0

Init ==
    /\ variant \in Variants
    /\ msg = IF variant = CmdGetHeaders THEN NewMsgGetHeaders
             ELSE NewMsgGetBlocks(StopHash)
    /\ NoCall
    /\ sid = <<>>

Next ==
    \/ \E hash \in HashInputs(Len(msg.BlockLocatorHashes)) : AddBlockLocatorHash(hash)
    \/ \E s \in Streams : VVSDecode(s.bytes, s.short, ProtocolVersion)
    \/ VVSDecodeIterate
    \/ VVSDecodeEnd
    \/ Return

Spec == Init /\ [][Next]_vars

----------------------------------------------------------------------------
(* The codec: a sender's request is encoded, the bytes reach a receiver    *)
(* whole, cut short or with a forged count, and are decoded into a fresh   *)
(* message                                                                 *)

SampleVersions == {0, ProtocolVersion, WireVersion}

\* Locator counts at the CompactSize width transition and at the maximum,
\* and counts only a direct write of the BlockLocatorHashes field can give.
BigCounts ==
    {252, 253, MaxBlockLocatorsPerMsg, MaxBlockLocatorsPerMsg + 1,
     MaxBlockLocatorsPerMsg + 2}

\* Sample requests: <<version, locator count, AltHash first, stop hash set>>.
SampleIds ==
    (SampleVersions \X (0..2) \X BOOLEAN \X BOOLEAN)
        \cup {<<WireVersion, n, FALSE, TRUE>> : n \in BigCounts}

SampleMsg(id) ==
    [ProtocolVersion |-> id[1],
     BlockLocatorHashes |-> Chain(id[2], id[3]),
     HashStop |-> IF id[4] THEN StopHash ELSE ZeroHash]

\* The capacities of the writers handed to VVSEncode.
WriterCaps == {NoLimit, 0, 3, 4, 20, 37, 50}

\* The lengths of the prefixes of an encoding of length len that are tried.
Cuts(len) ==
    IF len <= 5 + 3 * HashLength THEN 0..len
    ELSE (0..CutDepth) \cup {len - HashLength - 1, len - 1, len}

\* The message a receiver decodes into.
Fresh == IF variant = CmdGetHeaders THEN NewMsgGetHeaders ELSE NewMsgGetBlocks(AltHash)

\* The first c bytes of the encoding reach the receiver.
Receive(c) ==
    /\ pc = "done" /\ op = "VVSEncode" /\ err = nil
    /\ msg' = Fresh
    /\ r' = SubSeq(w, 1, c)
    /\ short' = Len(w) - c
    /\ w' = <<>>
    /\ pc' = "idle"
    /\ op' = "receive"
    /\ UNCHANGED <<variant, err, arg, nread, count, i, alloc, wcap, mpl, sid>>

\* The encoding reaches the receiver with its count replaced by hc.
ReceiveForged(hc) ==
    /\ pc = "done" /\ op = "VVSEncode" /\ err = nil
    /\ msg' = Fresh
    /\ r' = SubSeq(w, 1, 4) \o hc
              \o SubSeq(w, 5 + Len(CompactSize(Len(msg.BlockLocatorHashes))), Len(w))
    /\ short' = Forged
    /\ w' = <<>>
    /\ pc' = "idle"
    /\ op' = "receive"
    /\ UNCHANGED <<variant, err, arg, nread, count, i, alloc, wcap, mpl, sid>>

InitCodec ==
    /\ variant \in Variants
    /\ sid \in SampleIds
    /\ msg = SampleMsg(sid)
    /\ NoCall

NextCodec ==
    \/ op = "none" /\ \E cap \in WriterCaps : \E pver \in PVers : VVSEncode(cap, pver)
    \/ op = "none" /\ \E pver \in PVers : MaxPayloadLength(pver)
    \/ \E c \in Cuts(Len(w)) : Receive(c)
    \/ \E hc \in HostileCounts : ReceiveForged(hc)
    \/ op = "receive" /\ \E pver \in PVers : VVSDecode(r, short, pver)
    \/ VVSDecodeIterate
    \/ VVSDecodeEnd

SpecCodec == InitCodec /\ [][NextCodec]_vars

----------------------------------------------------------------------------
(* Properties *)

Hashes == msg.BlockLocatorHashes

\* The too-many-locators error of method f of the message's type.
TooMany(f) ==
    messageError(IF variant = CmdGetHeaders THEN "MsgGetHeaders." \o f
                 ELSE "MsgGetBlocks." \o f, TooManyLocators)

ReadFailures == {EOF, ErrUnexpectedEOF}

Decoded == op = "VVSDecode" /\ pc = "done"

Encoded == op = "VVSEncode" /\ pc = "done"

\* C1: round trip.  A request of at most MaxBlockLocatorsPerMsg locator
\* hashes is encoded without error (on a writer that does not fail), and
\* decoding the bytes it produced succeeds and gives a message equal to it
\* in ProtocolVersion, HashStop and the locator hashes in order.
C1_RoundTrip ==
    /\ (Encoded /\ wcap = NoLimit /\ Len(Hashes) <= MaxBlockLocatorsPerMsg) => err = nil
    /\ (Decoded /\ short = 0) => (err = nil /\ msg = SampleMsg(sid))

C1_Witness ==
    /\ Decoded /\ short = 0 /\ err = nil
    /\ Hashes = <<AltHash, BlockHash(2)>>
    /\ msg.ProtocolVersion = WireVersion
    /\ msg.HashStop = StopHash

\* C2: decode fails closed before allocation.  When the count read from the
\* stream exceeds MaxBlockLocatorsPerMsg, VVSDecode has returned the
\* too-many-locators error having consumed only the version and the count,
\* with no slot allocated and no hash of the message written; and no decode
\* ever allocates more than MaxBlockLocatorsPerMsg slots of HashLength bytes.
C2_FailClosed ==
    /\ (op = "VVSDecode" /\ count > MaxBlockLocatorsPerMsg) =>
          /\ pc = "done"
          /\ err = TooMany("VVSDecode")
          /\ alloc = 0
          /\ nread = 4 + (IF count = Saturated THEN 9 ELSE IF count > 65535 THEN 5 ELSE 3)
          /\ Hashes = Fresh.BlockLocatorHashes
          /\ msg.HashStop = Fresh.HashStop
    /\ alloc * HashLength <= MaxBlockLocatorsPerMsg * HashLength

C2_Witness ==
    Decoded /\ count = 10000000 /\ err = TooMany("VVSDecode") /\ Len(r) > HashLength

\* C3: a failed decode leaves no partially populated result: when VVSDecode
\* has returned an error, the message holds nothing read from the stream
\* (it is the message the receiver constructed).
C3_NoPartialResult ==
    (Decoded /\ err # nil) => msg = Fresh

\* C4: truncated stream.  VVSDecode of a strict prefix of a valid encoding
\* returns a read failure: not success, not the too-many-locators error.
C4_Truncated ==
    (Decoded /\ short > 0) => err \in ReadFailures

C4_Witness ==
    /\ Decoded /\ short = HashLength + 1 /\ err = ErrUnexpectedEOF
    /\ count = 2 /\ i = 1

\* C5: cardinality.  The message never holds more than
\* MaxBlockLocatorsPerMsg locator hashes, in any state, those inside a
\* decode included.
C5_Cardinality ==
    Len(Hashes) >= 0 /\ Len(Hashes) <= MaxBlockLocatorsPerMsg

C5_Witness ==
    /\ op = "AddBlockLocatorHash" /\ err = nil
    /\ Len(Hashes) = MaxBlockLocatorsPerMsg
    /\ msg.ProtocolVersion = WireVersion

\* C6: write-path bound.  AddBlockLocatorHash on a message of fewer than
\* MaxBlockLocatorsPerMsg hashes appends the hash at the end and returns no
\* error; on a message of MaxBlockLocatorsPerMsg hashes it returns the
\* too-many-locators error and leaves the message as it was.
C6_AddBound ==
    [][(pc = "idle" /\ op' = "AddBlockLocatorHash") =>
         IF Len(Hashes) < MaxBlockLocatorsPerMsg
         THEN /\ err' = nil
              /\ msg' = [msg EXCEPT !.BlockLocatorHashes = Append(Hashes, arg')]
         ELSE /\ err' = TooMany("AddBlockLocatorHash")
              /\ msg' = msg
              /\ Len(Hashes) = MaxBlockLocatorsPerMsg]_vars

C6_Witness ==
    /\ op = "AddBlockLocatorHash" /\ err = TooMany("AddBlockLocatorHash")
    /\ Len(Hashes) = MaxBlockLocatorsPerMsg
    /\ Hashes[MaxBlockLocatorsPerMsg] = AltHash

MaxPayloadLengthOf(m, pver) ==
    IF variant = CmdGetHeaders THEN MsgGetHeaders_MaxPayloadLength(m, pver)
    ELSE MsgGetBlocks_MaxPayloadLength(m, pver)

\* C7: MaxPayloadLength bounds every encoding: the bytes of a successful
\* VVSEncode are no more than MaxPayloadLength, whatever pver is, and the
\* value is the same for another message and another pver.
C7_MaxPayloadBound ==
    /\ (Encoded /\ err = nil) =>
          \A pver \in PVers : Len(w) <= MaxPayloadLengthOf(msg, pver)
    /\ op = "MaxPayloadLength" =>
          \A pver \in PVers : MaxPayloadLengthOf(Fresh, pver) = mpl

C7_Witness ==
    Encoded /\ err = nil /\ Len(Hashes) = MaxBlockLocatorsPerMsg /\ Len(w) = 16039

\* C8 as stated: MaxPayloadLength is 4 + the CompactSize width of the
\* count 500 + MaxBlockLocatorsPerMsg x 32 + 32.
C8_WidthOfMaxCount ==
    op = "MaxPayloadLength" =>
        mpl = 4 + Len(CompactSize(MaxBlockLocatorsPerMsg))
                + MaxBlockLocatorsPerMsg * HashLength + HashLength

\* C8, amended: MaxPayloadLength is 4 + MaxVarIntPayload (9, the widest
\* CompactSize of any count) + MaxBlockLocatorsPerMsg x 32 + 32 = 16045.
C8_MaxPayloadValue ==
    op = "MaxPayloadLength" =>
        /\ mpl = 16045
        /\ mpl = 4 + 9 + MaxBlockLocatorsPerMsg * HashLength + HashLength

C8_Witness ==
    op = "MaxPayloadLength" /\ pc = "done" /\ Len(Hashes) = MaxBlockLocatorsPerMsg

\* C9: encode re-validates the bound.  VVSEncode of a message of more than
\* MaxBlockLocatorsPerMsg hashes returns the too-many-locators error with
\* nothing written, whatever the writer; of a message within the bound it
\* never returns that error.
C9_EncodeRevalidates ==
    Encoded =>
        IF Len(Hashes) > MaxBlockLocatorsPerMsg
        THEN err = TooMany("VVSEncode") /\ w = <<>>
        ELSE err.type # "MessageError"

C9_Witness ==
    /\ Encoded /\ Len(Hashes) = MaxBlockLocatorsPerMsg + 1 /\ wcap = NoLimit
    /\ err = TooMany("VVSEncode")

\* C10: wire layout.  A successful VVSEncode writes the 4-byte little-endian
\* version, the CompactSize count, the locator hashes in order and the stop
\* hash, and nothing else: 4 + width + 32 n + 32 bytes, 37 for an empty
\* request.
C10_WireLayout ==
    (Encoded /\ err = nil) =>
        /\ w = Wire(msg.ProtocolVersion, Hashes, msg.HashStop)
        /\ Len(w) = 4 + (IF Len(Hashes) < 253 THEN 1 ELSE 3) + 32 * Len(Hashes) + 32
        /\ Len(Hashes) = 0 => Len(w) = 37
        /\ SubSeq(w, 1, 4) \in {<<0, 0, 0, 0>>, <<1, 0, 0, 0>>, <<4, 3, 2, 1>>}

C10_Witness ==
    /\ Encoded /\ err = nil /\ Len(Hashes) = 253
    /\ SubSeq(w, 1, 7) = <<4, 3, 2, 1, 253, 253, 0>>

====
